---- MODULE Spec2Model ----
(***************************************************************************)
(* Model of ops/scripts/nginx_conf_utils.py: the `includes-snippets`       *)
(* command, the http block locator and the include matcher.                *)
(*                                                                         *)
(* Text is a sequence of atoms.  The punctuation the code looks at is one  *)
(* atom per character (" ", "\n", "#", "{", "}", ";", "/", the two quote   *)
(* characters); the words "http", "include", "etc/nginx", "*.conf" and "x" *)
(* (a directory name such as conf.d) are atoms of several letters, which   *)
(* the code never looks inside.                                            *)
(* Line indexes are 0-based, as in the source.                             *)
(***************************************************************************)
EXTENDS Integers, Sequences, FiniteSets

VARIABLES
    conf_exists,    \* Path(args.conf).exists()
    content,        \* the text of the configuration file
    snippets_dir,   \* args.snippets_dir
    verbose,        \* args.verbose
    pc,             \* position in _cmd_includes_snippets
    file_read,      \* conf_path.read_text has been called
    lines,          \* nginx_conf_includes_snippets: lines
    block,          \* nginx_conf_includes_snippets: block ({} is None)
    ok,             \* _cmd_includes_snippets: ok
    stdout,         \* what was printed to standard output
    stderr,         \* what was printed to standard error
    exit_status     \* the command's return value ({} while running)

vars == <<conf_exists, content, snippets_dir, verbose, pc, file_read, lines,
          block, ok, stdout, stderr, exit_status>>

\* ------------------------------------------------------------ bounds, inputs

MaxLines == 4

DQ == "\""

SQ == "'"

Whitespace == {" ", "\n"}

\* The line bodies (without the newline) the configuration files are made of.
LineBodies ==
    { <<"http", " ", "{">>,
      <<"http">>,
      <<"{">>,
      <<"}">>,
      <<"http", "{", "}">>,
      <<" ", "include", " ", "x", "/", "*.conf", ";">>,
      <<"include", " ", DQ, "/", "etc/nginx", "/", "x", "/", "*.conf", DQ, ";",
        " ", "#", "}">>,
      <<"include", " ", "/", "*.conf", ";">>,
      <<"#", " ", "include", " ", "x", "/", "*.conf", ";">> }

SnippetsDirs ==
    { <<"/", "etc/nginx", "/", "x">>,
      <<"/", "etc/nginx", "/">> }

RECURSIVE JoinLines(_)
JoinLines(bodies) ==
    IF bodies = <<>> THEN <<>>
    ELSE Head(bodies) \o <<"\n">> \o JoinLines(Tail(bodies))

\* Every file of at most MaxLines lines, each line ending in a newline.
Files == { JoinLines(b) : b \in UNION { [1..n -> LineBodies] : n \in 0..MaxLines } }

\* ------------------------------------------------------------ str helpers

The(S) == CHOOSE x \in S : TRUE

RECURSIVE lstrip(_, _)
lstrip(s, chars) ==
    IF s # <<>> /\ Head(s) \in chars THEN lstrip(Tail(s), chars) ELSE s

RECURSIVE rstrip(_, _)
rstrip(s, chars) ==
    IF s # <<>> /\ s[Len(s)] \in chars
    THEN rstrip(SubSeq(s, 1, Len(s) - 1), chars)
    ELSE s

strip(s) == lstrip(rstrip(s, Whitespace), Whitespace)

startswith(s, p) == Len(s) >= Len(p) /\ SubSeq(s, 1, Len(p)) = p

endswith(s, p) == Len(s) >= Len(p) /\ SubSeq(s, Len(s) - Len(p) + 1, Len(s)) = p

removeprefix(s, p) == IF startswith(s, p) THEN SubSeq(s, Len(p) + 1, Len(s)) ELSE s

RECURSIVE splitlines(_)
splitlines(text) ==
    IF text = <<>> THEN <<>>
    ELSE LET nl == { i \in 1..Len(text) : text[i] = "\n" }
         IN  IF nl = {} THEN <<text>>
             ELSE LET k == CHOOSE i \in nl : \A j \in nl : i <= j
                  IN  <<SubSeq(text, 1, k)>> \o splitlines(SubSeq(text, k + 1, Len(text)))

\* lines[index] with the source's 0-based index
Line(ls, index) == ls[index + 1]

\* ------------------------------------------------------------ the module

\* strip_comments keeping the text after the "#" instead of the text before it
strip_comments_tail(line) ==
    LET hashes == { i \in 1..Len(line) : line[i] = "#" }
    IN  IF hashes = {} THEN line
        ELSE SubSeq(line, (CHOOSE i \in hashes : \A j \in hashes : i <= j) + 1, Len(line))

strip_comments(line) ==
    LET hashes == { i \in 1..Len(line) : line[i] = "#" }
    IN  IF hashes = {} THEN line
        ELSE SubSeq(line, 1, (CHOOSE i \in hashes : \A j \in hashes : i <= j) - 1)

count_char(text, char) == Cardinality({ i \in 1..Len(text) : text[i] = char })

\* count of "{" minus count of "}" on the comment-stripped line i
NetBraces(ls, i) ==
    count_char(strip_comments(Line(ls, i)), "{")
        - count_char(strip_comments(Line(ls, i)), "}")

\* depth accumulated over the lines s..i, both included
RECURSIVE DepthFrom(_, _, _)
DepthFrom(ls, s, i) ==
    IF i < s THEN 0 ELSE DepthFrom(ls, s, i - 1) + NetBraces(ls, i)

unquote(value) ==
    LET v == strip(value)
    IN  IF \/ (startswith(v, <<DQ>>) /\ endswith(v, <<DQ>>))
           \/ (startswith(v, <<SQ>>) /\ endswith(v, <<SQ>>))
        THEN strip(SubSeq(v, 2, Len(v) - 1))
        ELSE v

\* INCLUDE_RE.match(cleaned): {} when there is no match, else {group(1)}.
\*   ^\s*include\s+([^;]+)\s*;\s*$
INCLUDE_RE(cleaned) ==
    LET t == lstrip(cleaned, Whitespace)
    IN  IF t = <<>> \/ Head(t) # "include" THEN {}
        ELSE
        LET u    == Tail(t)
            w    == lstrip(u, Whitespace)
            nws  == Len(u) - Len(w)
            semi == { i \in 1..Len(w) : w[i] = ";" }
        IN  IF nws = 0 \/ semi = {} THEN {}
            ELSE
            LET p == CHOOSE i \in semi : \A j \in semi : i <= j
            IN  IF lstrip(SubSeq(w, p + 1, Len(w)), Whitespace) # <<>> THEN {}
                ELSE IF p > 1 THEN { SubSeq(w, 1, p - 1) }
                ELSE IF nws >= 2 THEN { <<u[nws]>> }
                ELSE {}

parse_include_path(line) ==
    LET cleaned == rstrip(strip_comments(line), {"\n"})
        match   == INCLUDE_RE(cleaned)
    IN  IF match = {} THEN {} ELSE { unquote(The(match)) }

HttpBlock(start, end) == [start_line_index |-> start, end_line_index |-> end]

\* re.match(r"^\s*http\s*\{", line)
match_http_open(line) ==
    LET t == lstrip(line, Whitespace)
    IN  /\ t # <<>>
        /\ Head(t) = "http"
        /\ LET v == lstrip(Tail(t), Whitespace) IN v # <<>> /\ Head(v) = "{"

\* re.match(r"^\s*http\s*$", line)
match_http_alone(line) ==
    LET t == lstrip(line, Whitespace)
    IN  /\ t # <<>>
        /\ Head(t) = "http"
        /\ lstrip(Tail(t), Whitespace) = <<>>

\* re.match(r"^\s*\{", line)
match_open_brace(line) ==
    LET t == lstrip(line, Whitespace) IN t # <<>> /\ Head(t) = "{"

\* find_http_open passing over an opening that lies inside a still-open block
RECURSIVE find_http_open_toplevel(_, _)
find_http_open_toplevel(ls, index) ==
    IF index >= Len(ls) THEN {}
    ELSE LET line == strip_comments(Line(ls, index))
             top  == DepthFrom(ls, 0, index - 1) <= 0
         IN  IF top /\ match_http_open(line) THEN {index}
             ELSE IF /\ top
                     /\ match_http_alone(line)
                     /\ index + 1 < Len(ls)
                     /\ match_open_brace(strip_comments(Line(ls, index + 1)))
                  THEN {index + 1}
                  ELSE find_http_open_toplevel(ls, index + 1)

\* find_http_open without the break: the last opening wins
RECURSIVE find_http_open_last(_, _)
find_http_open_last(ls, index) ==
    IF index >= Len(ls) THEN {}
    ELSE LET line  == strip_comments(Line(ls, index))
             later == find_http_open_last(ls, index + 1)
         IN  IF later # {} THEN later
             ELSE IF match_http_open(line) THEN {index}
             ELSE IF /\ match_http_alone(line)
                     /\ index + 1 < Len(ls)
                     /\ match_open_brace(strip_comments(Line(ls, index + 1)))
                  THEN {index + 1}
                  ELSE {}

\* The first loop of find_http_block, from `index` on: {} is None.
RECURSIVE find_http_open(_, _)
find_http_open(ls, index) ==
    IF index >= Len(ls) THEN {}
    ELSE LET line == strip_comments(Line(ls, index))
         IN  IF match_http_open(line) THEN {index}
             ELSE IF /\ match_http_alone(line)
                     /\ index + 1 < Len(ls)
                     /\ match_open_brace(strip_comments(Line(ls, index + 1)))
                  THEN {index + 1}
                  ELSE find_http_open(ls, index + 1)

\* scan_depth without the `index > http_open_index` condition
RECURSIVE scan_depth_no_guard(_, _, _, _)
scan_depth_no_guard(ls, http_open_index, index, depth) ==
    IF index >= Len(ls) THEN {}
    ELSE LET line == strip_comments(Line(ls, index))
             d    == depth + count_char(line, "{") - count_char(line, "}")
         IN  IF d = 0
             THEN { [start_line_index |-> http_open_index, end_line_index |-> index] }
             ELSE scan_depth_no_guard(ls, http_open_index, index + 1, d)

\* scan_depth taking the end of the input as the end of an unclosed block
RECURSIVE scan_depth_eof(_, _, _, _)
scan_depth_eof(ls, http_open_index, index, depth) ==
    IF index >= Len(ls)
    THEN IF Len(ls) - 1 > http_open_index
         THEN { [start_line_index |-> http_open_index, end_line_index |-> Len(ls) - 1] }
         ELSE {}
    ELSE LET line == strip_comments(Line(ls, index))
             d    == depth + count_char(line, "{") - count_char(line, "}")
         IN  IF d = 0 /\ index > http_open_index
             THEN { [start_line_index |-> http_open_index, end_line_index |-> index] }
             ELSE scan_depth_eof(ls, http_open_index, index + 1, d)

\* The second loop of find_http_block, from `index` on with `depth` so far.
RECURSIVE scan_depth(_, _, _, _)
scan_depth(ls, http_open_index, index, depth) ==
    IF index >= Len(ls) THEN {}
    ELSE LET line == strip_comments(Line(ls, index))
             d    == depth + count_char(line, "{") - count_char(line, "}")
         IN  IF d = 0 /\ index > http_open_index
             THEN { HttpBlock(http_open_index, index) }
             ELSE scan_depth(ls, http_open_index, index + 1, d)

find_http_block(ls) ==
    LET http_open_index == find_http_open(ls, 0)
    IN  IF http_open_index = {} THEN {}
        ELSE scan_depth(ls, The(http_open_index), The(http_open_index), 0)

include_abs(dir) == rstrip(dir, {"/"}) \o <<"/", "*.conf">>

\* include_rel removing the prefix before the trailing slashes
include_rel_prefix_first(dir) ==
    rstrip(removeprefix(dir, <<"/", "etc/nginx", "/">>), {"/"}) \o <<"/", "*.conf">>

include_rel(dir) ==
    removeprefix(rstrip(dir, {"/"}), <<"/", "etc/nginx", "/">>) \o <<"/", "*.conf">>

targets(dir) == { include_abs(dir), include_rel(dir) }

\* scan_includes without the early return: the last line of the span decides
RECURSIVE scan_includes_last(_, _, _, _)
scan_includes_last(ls, index, end, tgts) ==
    IF index > end \/ index >= Len(ls) THEN FALSE
    ELSE LET include_path == parse_include_path(Line(ls, index))
             here == /\ include_path # {}
                     /\ The(include_path) # <<>>
                     /\ The(include_path) \in tgts
         IN  IF index = end \/ index + 1 >= Len(ls) THEN here
             ELSE scan_includes_last(ls, index + 1, end, tgts)

\* The for loop over lines[start : end + 1], from `index` on.
RECURSIVE scan_includes(_, _, _, _)
scan_includes(ls, index, end, tgts) ==
    IF index > end \/ index >= Len(ls) THEN FALSE
    ELSE LET include_path == parse_include_path(Line(ls, index))
         IN  IF /\ include_path # {}
                /\ The(include_path) # <<>>
                /\ The(include_path) \in tgts
             THEN TRUE
             ELSE scan_includes(ls, index + 1, end, tgts)

includes_in_block(ls, blk, dir) ==
    IF blk = {} THEN FALSE
    ELSE scan_includes(ls, The(blk).start_line_index, The(blk).end_line_index,
                       targets(dir))

nginx_conf_includes_snippets(text, dir) ==
    LET ls == splitlines(text)
    IN  includes_in_block(ls, find_http_block(ls), dir)

\* ------------------------------------------------------------ the command

Init ==
    /\ conf_exists \in BOOLEAN
    /\ content \in (IF conf_exists THEN Files ELSE {<<>>})
    /\ snippets_dir \in SnippetsDirs
    /\ verbose \in BOOLEAN
    /\ pc = "start"
    /\ file_read = FALSE
    /\ lines = <<>>
    /\ block = {}
    /\ ok = FALSE
    /\ stdout = <<>>
    /\ stderr = <<>>
    /\ exit_status = {}

\* CmdNotFound reporting the missing file as a negative result
CmdNotFoundReturns1 ==
    /\ pc = "start"
    /\ ~conf_exists
    /\ stderr' = Append(stderr, "ERROR: nginx config not found")
    /\ exit_status' = {1}
    /\ pc' = "exited"
    /\ UNCHANGED <<conf_exists, content, snippets_dir, verbose, file_read, lines,
                   block, ok, stdout>>

\* if not conf.exists(): print(ERROR, file=sys.stderr); return 2
CmdNotFound ==
    /\ pc = "start"
    /\ ~conf_exists
    /\ stderr' = Append(stderr, "ERROR: nginx config not found")
    /\ exit_status' = {2}
    /\ pc' = "exited"
    /\ UNCHANGED <<conf_exists, content, snippets_dir, verbose, file_read, lines,
                   block, ok, stdout>>

\* nginx_conf_includes_snippets: read the file and locate the block
ReadAndFindBlock ==
    /\ pc = "start"
    /\ conf_exists
    /\ file_read' = TRUE
    /\ lines' = splitlines(content)
    /\ block' = find_http_block(lines')
    /\ pc' = "located"
    /\ UNCHANGED <<conf_exists, content, snippets_dir, verbose, ok, stdout, stderr,
                   exit_status>>

\* nginx_conf_includes_snippets: the result, returned into ok
ScanBlock ==
    /\ pc = "located"
    /\ ok' = includes_in_block(lines, block, snippets_dir)
    /\ pc' = "returned"
    /\ UNCHANGED <<conf_exists, content, snippets_dir, verbose, file_read, lines,
                   block, stdout, stderr, exit_status>>

\* if args.verbose: print("yes" if ok else "no"); return 0 if ok else 1
CmdReport ==
    /\ pc = "returned"
    /\ stdout' = IF verbose THEN Append(stdout, IF ok THEN "yes" ELSE "no") ELSE stdout
    /\ exit_status' = IF ok THEN {0} ELSE {1}
    /\ pc' = "exited"
    /\ UNCHANGED <<conf_exists, content, snippets_dir, verbose, file_read, lines,
                   block, ok, stderr>>

Next == CmdNotFound \/ ReadAndFindBlock \/ ScanBlock \/ CmdReport

Spec == Init /\ [][Next]_vars

\* ------------------------------------------------------------ properties

\* find_http_block has just returned into block
Located == pc = "located"

\* nginx_conf_includes_snippets has just returned into ok
Returned == pc = "returned"

LineIndexes == 0..(Len(lines) - 1)

\* line i parses to an include path that is one of the targets
IsMatchingInclude(i) ==
    \E p \in parse_include_path(Line(lines, i)) : p \in targets(snippets_dir)

\* The line holding the "}" that matches the first "{" of line s, brace by
\* brace: {} when the input ends first.
RECURSIVE CloseScan(_, _, _, _)
CloseScan(ls, i, k, depth) ==
    IF i >= Len(ls) THEN {}
    ELSE LET t == strip_comments(Line(ls, i))
         IN  IF k > Len(t) THEN CloseScan(ls, i + 1, 1, depth)
             ELSE IF t[k] = "{" THEN CloseScan(ls, i, k + 1, depth + 1)
             ELSE IF t[k] = "}"
                  THEN IF depth = 1 THEN {i} ELSE CloseScan(ls, i, k + 1, depth - 1)
             ELSE CloseScan(ls, i, k + 1, depth)

MatchingCloseLine(ls, s) == CloseScan(ls, s, 1, 0)

\* line i is inside the span of block b
InSpan(b, i) == b.start_line_index <= i /\ i <= b.end_line_index

\* optional whitespace, `http`, optional whitespace, "{" at the start of t
IsHttpBraceLine(t) ==
    \E k, m \in 1..Len(t) :
        /\ k < m
        /\ t[k] = "http"
        /\ t[m] = "{"
        /\ \A j \in 1..(m - 1) : j # k => t[j] \in Whitespace

\* only `http`, with optional whitespace around it
IsHttpOnlyLine(t) ==
    \E k \in 1..Len(t) :
        /\ t[k] = "http"
        /\ \A j \in 1..Len(t) : j # k => t[j] \in Whitespace

\* optional whitespace, then "{"
BeginsWithBrace(t) ==
    \E m \in 1..Len(t) : t[m] = "{" /\ \A j \in 1..(m - 1) : t[j] \in Whitespace

\* the text of a line before its first "#"
RECURSIVE PrefixBeforeHash(_)
PrefixBeforeHash(line) ==
    IF line = <<>> \/ Head(line) = "#" THEN <<>>
    ELSE <<Head(line)>> \o PrefixBeforeHash(Tail(line))

\* the text of a line after its first "#"
RECURSIVE AfterHash(_)
AfterHash(line) ==
    IF line = <<>> THEN <<>>
    ELSE IF Head(line) = "#" THEN Tail(line) ELSE AfterHash(Tail(line))

Atoms(t) == { t[k] : k \in 1..Len(t) }

\* line i opens the block in form (1) or in form (2)
OpensHere(i) ==
    LET t == PrefixBeforeHash(Line(lines, i))
    IN  \/ IsHttpBraceLine(t)
        \/ /\ IsHttpOnlyLine(t)
           /\ i + 1 < Len(lines)
           /\ BeginsWithBrace(PrefixBeforeHash(Line(lines, i + 1)))

\* the start index an opening at line i gives
StartOf(i) == IF IsHttpBraceLine(PrefixBeforeHash(Line(lines, i))) THEN i ELSE i + 1

IsFirstOpening(i) == OpensHere(i) /\ \A j \in 0..(i - 1) : ~OpensHere(j)

\* C1: when every line that parses as a matching include lies before the line
\* holding the http block's opening "{" or after the line holding its matching
\* closing "}", nginx_conf_includes_snippets returns false.
C1_IncludeOutsideBlockIsFalse ==
    Returned =>
        \A s \in find_http_open(lines, 0) :
            \A e \in MatchingCloseLine(lines, s) :
                (\A i \in LineIndexes : IsMatchingInclude(i) => (i < s \/ i > e))
                    => ok = FALSE

\* C2: the result is true exactly when a block was found and some line of
\* lines[start..end] parses to a target path; the scan is decided at the first
\* such line, whatever follows it.
C2_TrueIffMatchInSpan ==
    Returned =>
        /\ ok = (\E b \in block :
                    \E i \in b.start_line_index..b.end_line_index :
                        IsMatchingInclude(i))
        /\ \A b \in block :
               \A i \in b.start_line_index..b.end_line_index :
                   IsMatchingInclude(i) =>
                       scan_includes(lines, b.start_line_index, i,
                                     targets(snippets_dir))

C2_Witness ==
    /\ Returned
    /\ ok
    /\ \E b \in block :
           \E i, j \in b.start_line_index..b.end_line_index :
               i < j /\ IsMatchingInclude(i) /\ ~IsMatchingInclude(j)

C4_NoBlockIsFalse ==
    /\ (Returned /\ block = {}) => ok = FALSE
    /\ Located =>
        LET s == find_http_open(lines, 0)
        IN  (\/ \A i \in LineIndexes : ~OpensHere(i)
             \/ \E o \in s : \A j \in LineIndexes :
                    j > o => DepthFrom(lines, o, j) # 0)
                => block = {} /\ find_http_block(lines) = {}

C4_Witness ==
    /\ Returned
    /\ block = {}
    /\ ok = FALSE
    /\ find_http_open(lines, 0) # {}
    /\ \E i \in LineIndexes :
           i > The(find_http_open(lines, 0)) /\ IsMatchingInclude(i)

\* C5 as stated: the opening of the located block is at brace depth 0 with
\* respect to the lines before it, so an `http {` inside a still-open block is
\* never taken.
C5_OpeningAtDepthZero ==
    Located => \A b \in block : ~(DepthFrom(lines, 0, b.start_line_index - 1) > 0)

\* C5 amended: the located block is opened by the first line that opens http,
\* whatever the brace depth of the lines before it: an opening inside a
\* still-open block is taken when no earlier line opens http, and an include
\* inside the span found from it makes the result true.
C5_FirstOpeningAtAnyDepth ==
    /\ Returned =>
        \A b \in block :
            DepthFrom(lines, 0, b.start_line_index - 1) > 0 =>
                ok = (\E k \in LineIndexes : InSpan(b, k) /\ IsMatchingInclude(k))
    /\ Located =>
        \A i \in LineIndexes :
            (IsFirstOpening(i) /\ DepthFrom(lines, 0, i - 1) > 0) =>
                /\ find_http_open(lines, 0) = {StartOf(i)}
                /\ (\E j \in LineIndexes :
                        j > StartOf(i) /\ DepthFrom(lines, StartOf(i), j) = 0)
                       => \E b \in block : b.start_line_index = StartOf(i)

C5_Witness ==
    /\ Returned
    /\ ok
    /\ \E b \in block : DepthFrom(lines, 0, b.start_line_index - 1) > 0

\* C6: text from the first "#" of a line on never influences the result:
\* with every line replaced by its prefix before the first "#", each line
\* parses to the same include path, find_http_block returns the same block
\* and the result is the same, also when the "#" is inside quotes.
C6_CommentsNeverInfluence ==
    LET clean == [k \in 1..Len(lines) |-> PrefixBeforeHash(lines[k])]
    IN  /\ Located =>
            /\ \A i \in LineIndexes :
                   parse_include_path(Line(lines, i)) =
                       parse_include_path(Line(clean, i))
            /\ find_http_block(clean) = block
            /\ parse_include_path(
                   <<"include", " ", DQ, "x", "/", "#", "*.conf", DQ, ";", "\n">>) = {}
        /\ Returned =>
            includes_in_block(clean, find_http_block(clean), snippets_dir) = ok

C6_Witness ==
    /\ Returned
    /\ ok
    /\ \E b \in block : \E i, j \in LineIndexes :
           /\ InSpan(b, i)
           /\ InSpan(b, j)
           /\ "include" \in Atoms(AfterHash(Line(lines, i)))
           /\ "}" \in Atoms(AfterHash(Line(lines, j)))

\* C7: find_http_block stops at the first line, top to bottom, that opens the
\* block in form (1), start = that line, or in form (2), start = the line
\* after it; a lone `http` line not followed by a "{" line is passed over and
\* no later opening is chosen over an earlier one.
C7_FirstOpeningWins ==
    Located =>
        /\ (\A i \in LineIndexes : ~OpensHere(i)) => find_http_open(lines, 0) = {}
        /\ \A i \in LineIndexes :
               IsFirstOpening(i) =>
                   /\ find_http_open(lines, 0) = {StartOf(i)}
                   /\ \A b \in block : b.start_line_index = StartOf(i)

C7_Witness ==
    /\ Located
    /\ \E b \in block : \E i, j, k \in LineIndexes :
           /\ i < j
           /\ j < k
           /\ IsHttpOnlyLine(PrefixBeforeHash(Line(lines, i)))
           /\ IsFirstOpening(j)
           /\ b.start_line_index = StartOf(j)
           /\ OpensHere(k)

\* C8: every block returned has start <= end, accumulated depth 0 at the end
\* line and accumulated depth strictly positive at the start line and at every
\* line up to end - 1.
C8_BlockInvariant ==
    Located =>
        \A b \in block :
            /\ b.start_line_index <= b.end_line_index
            /\ DepthFrom(lines, b.start_line_index, b.end_line_index) = 0
            /\ \A i \in b.start_line_index..(b.end_line_index - 1) :
                   DepthFrom(lines, b.start_line_index, i) > 0

\* C9: the end index is the smallest index strictly greater than the start
\* index at which the depth accumulated from the start line is 0; a depth of 0
\* on the opening line does not end the block, and no line after the end line
\* is examined.
C9_EndIsFirstZeroAfterStart ==
    Located =>
        /\ \A s \in find_http_open(lines, 0) :
               LET zeros == { j \in LineIndexes :
                                 j > s /\ DepthFrom(lines, s, j) = 0 }
               IN  IF zeros = {} THEN block = {}
                   ELSE block =
                            { [start_line_index |-> s,
                               end_line_index |->
                                   CHOOSE j \in zeros : \A z \in zeros : j <= z] }
        /\ \A b \in block :
               LET upto == SubSeq(lines, 1, b.end_line_index + 1)
               IN  /\ find_http_block(upto) = block
                   /\ \A body \in LineBodies :
                          find_http_block(upto \o <<body>>) = block

C9_Witness ==
    /\ Located
    /\ \E b \in block :
           /\ DepthFrom(lines, b.start_line_index, b.start_line_index) = 0
           /\ b.end_line_index + 1 < Len(lines)

\* d without its trailing slashes
DropTrailingSlashes(d) ==
    LET k == CHOOSE n \in 0..Len(d) :
                 /\ n = 0 \/ d[n] # "/"
                 /\ \A j \in (n + 1)..Len(d) : d[j] = "/"
    IN  SubSeq(d, 1, k)

EtcNginx == <<"/", "etc/nginx", "/">>

DropEtcNginx(d) ==
    IF Len(d) >= 3 /\ SubSeq(d, 1, 3) = EtcNginx THEN SubSeq(d, 4, Len(d)) ELSE d

\* C10 as stated: (b) takes the prefix off d first, then the trailing slash
StatedTargets(d) ==
    { DropTrailingSlashes(d) \o <<"/", "*.conf">>,
      DropTrailingSlashes(DropEtcNginx(d)) \o <<"/", "*.conf">> }

\* C10 amended: (b) takes the prefix off d after the trailing slashes
AmendedTargets(d) ==
    { DropTrailingSlashes(d) \o <<"/", "*.conf">>,
      DropEtcNginx(DropTrailingSlashes(d)) \o <<"/", "*.conf">> }

\* C10 as stated: the accepted include paths are d without trailing slash plus
\* /*.conf, and the same with a leading /etc/nginx/ removed from d first.
C10_StatedTargets ==
    Returned =>
        ok = (\E b \in block : \E i \in LineIndexes :
                 /\ InSpan(b, i)
                 /\ \E p \in parse_include_path(Line(lines, i)) :
                        p \in StatedTargets(snippets_dir))

\* C10 amended: the accepted include paths are d without its trailing slashes
\* plus /*.conf, and the same with a leading /etc/nginx/ removed after the
\* trailing slashes were; the result is the same for d and d + "/", and both
\* paths are accepted unquoted and in either kind of quotes.
C10_TwoTargets ==
    Returned =>
        /\ ok = (\E b \in block : \E i \in LineIndexes :
                    /\ InSpan(b, i)
                    /\ \E p \in parse_include_path(Line(lines, i)) :
                           p \in AmendedTargets(snippets_dir))
        /\ nginx_conf_includes_snippets(content, snippets_dir \o <<"/">>) = ok
        /\ \A t \in AmendedTargets(snippets_dir) :
               \A q \in {<<>>, <<DQ>>, <<SQ>>} :
                   parse_include_path(
                       <<"include", " ">> \o q \o t \o q \o <<";", "\n">>) = {t}

C10_Witness ==
    /\ Returned
    /\ ok
    /\ snippets_dir = EtcNginx \o <<"x">>
    /\ \E b \in block : \E i \in LineIndexes :
           /\ InSpan(b, i)
           /\ parse_include_path(Line(lines, i)) = {<<"x", "/", "*.conf">>}

====
